---- MODULE Spec2Model ----
(***************************************************************************)
(* Model of src/dataset.py: MultiVideoAnomalyDataset and                   *)
(* SingleVideoAnomalyDataset.                                              *)
(*                                                                         *)
(* A video is identified by the position of its annotation file in         *)
(* json_paths (distinct annotation files derive distinct video paths).     *)
(* A decoded frame is identified by its frame index; the per-pixel work    *)
(* (resize, BGR->RGB, /255) does not change which frames are returned and  *)
(* is represented only by its one failure: cv2.resize raises on an empty   *)
(* crop.  The labels 0.0 and 1.0 are written 0 and 1.  transform is None.  *)
(***************************************************************************)
EXTENDS Integers, Sequences, FiniteSets, TLC

\* ---------------------------------------------------------------- bounds
MaxFiles == 2          \* annotation files found by glob
MaxFrames == 3         \* frames per video (CAP_PROP_FRAME_COUNT)
MaxSeqLen == 2         \* seq_len
MaxEvents == 2         \* event ranges per annotation when the indexer runs on one video
MaxSamples == 3        \* total windows of the videos of one dataset
FrameSize == 2         \* width and height of a decoded frame

\* ------------------------------------------------------------ environment
NoRoi == <<>>
RoiInside == <<0, 0, FrameSize, FrameSize>>
RoiOutside == <<FrameSize, FrameSize, FrameSize + 1, FrameSize + 1>>
RoiPart == <<0, 0, 1, 1>>
Rois == {RoiInside, RoiOutside}       \* rectangles a caller passes
RecordRois == {RoiPart}               \* rectangles an annotation record gives

EventRanges == {r \in (0..(MaxFrames - 1)) \X (0..(MaxFrames - 1)) : r[1] <= r[2]}
EventLists == UNION {[1..n -> EventRanges] : n \in 0..MaxEvents}
\* the annotation files of a whole dataset mark no event or one event each
DirEventLists == {<<>>} \cup {<<r>> : r \in EventRanges}

\* The parsed content of one annotation file.  kind tells what json.load and
\* the key lookups meet: a well-formed record, text that is not JSON, a record
\* without 'annotations', a record whose 'annotations' has no 'event_frame'.
BadKinds == {"malformed", "no_annotations", "no_event_frame"}
Items ==
    [kind : {"ok"}, roi : RecordRois \cup {NoRoi}, event_frame : DirEventLists]
    \cup [kind : BadKinds, roi : {NoRoi}, event_frame : {<<>>}]

\* ------------------------------------------------------------- the indexer
PyRange(a, b) == [i \in 1..(IF b > a THEN b - a ELSE 0) |-> a + i - 1]

OverlapsTouchExcluded(start, end, s, e) == ~(end <= s \/ start >= e)
Overlaps(start, end, s, e) == ~(end < s \/ start > e)

RECURSIVE LabelLoop(_, _, _, _)
LabelLoop(start, end, anomaly_frames, i) ==
    IF i > Len(anomaly_frames) THEN 0
    ELSE IF Overlaps(start, end, anomaly_frames[i][1], anomaly_frames[i][2]) THEN 1
    ELSE LabelLoop(start, end, anomaly_frames, i + 1)

Label(start, sl, anomaly_frames) == LabelLoop(start, start + sl - 1, anomaly_frames, 1)

WindowStartsNoPlusOne(nframes, sl) == PyRange(0, nframes - sl)
WindowStartsEveryFrame(nframes, sl) == PyRange(0, nframes)
WindowStarts(nframes, sl) == PyRange(0, nframes - sl + 1)

RecordRoiIgnored(item, dflt) == dflt
RecordRoi(item, dflt) == IF item.roi # NoRoi THEN item.roi ELSE dflt

MultiSamplesOf(vpath, item, nframes, sl, dflt) ==
    LET starts == WindowStarts(nframes, sl)
    IN  [i \in 1..Len(starts) |->
            [vpath |-> vpath, start |-> starts[i],
             label |-> Label(starts[i], sl, item.event_frame),
             roi |-> RecordRoi(item, dflt)]]

SingleSamplesOf(vpath, item, nframes, sl) ==
    LET starts == WindowStarts(nframes, sl)
    IN  [i \in 1..Len(starts) |->
            [vpath |-> vpath, start |-> starts[i],
             label |-> Label(starts[i], sl, item.event_frame)]]

LoadRaisesMissingTolerated(item) == item.kind = "malformed"
LoadRaises(item) == item.kind # "ok"

ExtendPrepending(old, new) == new \o old
Extend(old, new) == old \o new

\* ----------------------------------------------------------- the extractor
Min(a, b) == IF a < b THEN a ELSE b
SliceLen(lo, hi, n) ==
    LET l == Min(lo, n)
        h == Min(hi, n)
    IN  IF h > l THEN h - l ELSE 0

\* img[y1:y2, x1:x2] of a FrameSize x FrameSize frame is empty
CropEmpty(roi) ==
    \/ SliceLen(roi[2], roi[4], FrameSize) = 0
    \/ SliceLen(roi[1], roi[3], FrameSize) = 0

RECURSIVE ReadLoop(_, _, _, _, _)
ReadLoop(pos, left, readable, roi, frames) ==
    IF left = 0 THEN [frames |-> frames, err |-> FALSE]
    ELSE IF ~(pos < readable) THEN [frames |-> frames, err |-> FALSE]
    ELSE IF CropEmpty(roi) THEN [frames |-> frames, err |-> TRUE]
    ELSE ReadLoop(pos + 1, left - 1, readable, roi, Append(frames, pos))

\* supply: the frames the decoder can read from frame start on, so that
\* cap.read() succeeds at positions start .. start+supply-1.
ReadFramesFromZero(start, sl, supply, roi) == ReadLoop(0, sl, start + supply, roi, <<>>)
ReadFrames(start, sl, supply, roi) == ReadLoop(start, sl, start + supply, roi, <<>>)

GetItemResult(idx, supply, start, label, roi, sl) ==
    LET r == ReadFrames(start, sl, supply, roi)
    IN  IF r.err
        THEN [idx |-> idx, supply |-> supply, roi |-> roi, released |-> FALSE,
              outcome |-> "cv2.error", seq |-> <<>>, label |-> -1]
        ELSE IF Len(r.frames) = 0
        THEN [idx |-> idx, supply |-> supply, roi |-> roi, released |-> TRUE,
              outcome |-> "RuntimeError", seq |-> <<>>, label |-> -1]
        ELSE [idx |-> idx, supply |-> supply, roi |-> roi, released |-> TRUE,
              outcome |-> "ok", seq |-> r.frames, label |-> label]

\* ------------------------------------------------------------------ state
VARIABLES
    variant,      \* "multi" or "single": which class is being used
    seq_len,      \* self.seq_len
    default_roi,  \* self.default_roi (multi), self.roi (single)
    njson,        \* len(json_paths); 1 for the single-video dataset
    files,        \* what the constructor met, file by file: kind, roi, nframes
    samples,      \* self.samples
    status,       \* "init" while __init__ runs, then "ready" or "raised"
    openCaps,     \* VideoCapture handles opened by __getitem__ and not released;
                  \* the accesses modelled end with the first one that leaves a handle open
    result,       \* outcome of the last __getitem__ call
    ix            \* the indexer applied to one video (SpecIndexer only)

vars == <<variant, seq_len, default_roi, njson, files, samples, status, openCaps, result, ix>>

NoResult == [outcome |-> "none"]
NoIx == [pc |-> "off"]

Init ==
    /\ variant \in {"multi", "single"}
    /\ seq_len \in 1..MaxSeqLen
    /\ default_roi \in Rois
    /\ njson \in IF variant = "multi" THEN 0..MaxFiles ELSE {1}
    /\ files = <<>>
    /\ samples = <<>>
    /\ status = "init"
    /\ openCaps = 0
    /\ result = NoResult
    /\ ix = NoIx

\* The videos of one dataset hold at most MaxSamples windows in total.
Fits(nframes) == Len(samples) + Len(WindowStarts(nframes, seq_len)) <= MaxSamples

FileSeen(item, nframes) == [kind |-> item.kind, roi |-> item.roi, nframes |-> nframes]

\* One iteration of the loop over json_paths; an exception leaves __init__.
MultiLoadFile ==
    /\ variant = "multi"
    /\ status = "init"
    /\ Len(files) < njson
    /\ \E item \in Items, nframes \in {n \in 0..MaxFrames : Fits(n)} :
         IF LoadRaises(item)
         THEN /\ status' = "raised"
              /\ files' = Append(files, FileSeen(item, 0))
              /\ UNCHANGED samples
         ELSE /\ samples' = Extend(samples,
                    MultiSamplesOf(Len(files) + 1, item, nframes, seq_len, default_roi))
              /\ files' = Append(files, FileSeen(item, nframes))
              /\ UNCHANGED status
    /\ UNCHANGED <<variant, seq_len, default_roi, njson, openCaps, result, ix>>

MultiReturn ==
    /\ variant = "multi"
    /\ status = "init"
    /\ Len(files) = njson
    /\ status' = "ready"
    /\ UNCHANGED <<variant, seq_len, default_roi, njson, files, samples, openCaps, result, ix>>

SingleInit ==
    /\ variant = "single"
    /\ status = "init"
    /\ \E item \in Items, nframes \in 0..MaxFrames :
         IF LoadRaises(item)
         THEN /\ status' = "raised"
              /\ files' = <<FileSeen(item, IF item.kind = "malformed" THEN 0 ELSE nframes)>>
              /\ UNCHANGED samples
         ELSE /\ samples' = Extend(samples, SingleSamplesOf(1, item, nframes, seq_len))
              /\ files' = <<FileSeen(item, nframes)>>
              /\ status' = "ready"
    /\ UNCHANGED <<variant, seq_len, default_roi, njson, openCaps, result, ix>>

MultiGetItem ==
    /\ variant = "multi"
    /\ status = "ready"
    /\ openCaps = 0
    /\ \E idx \in 1..Len(samples), supply \in 0..seq_len :
         LET s == samples[idx]
             r == GetItemResult(idx, supply, s.start, s.label, s.roi, seq_len)
         IN  /\ result' = r
             /\ openCaps' = IF r.released THEN openCaps ELSE openCaps + 1
    /\ UNCHANGED <<variant, seq_len, default_roi, njson, files, samples, status, ix>>

SingleGetItem ==
    /\ variant = "single"
    /\ status = "ready"
    /\ openCaps = 0
    /\ \E idx \in 1..Len(samples), supply \in 0..seq_len :
         LET s == samples[idx]
             r == GetItemResult(idx, supply, s.start, s.label, default_roi, seq_len)
         IN  /\ result' = r
             /\ openCaps' = IF r.released THEN openCaps ELSE openCaps + 1
    /\ UNCHANGED <<variant, seq_len, default_roi, njson, files, samples, status, ix>>

Next ==
    \/ MultiLoadFile
    \/ MultiReturn
    \/ SingleInit
    \/ MultiGetItem
    \/ SingleGetItem

Spec == Init /\ [][Next]_vars

\* ---------------------------------------------- the indexer on one video
\* The constructor of either class run on one well-formed annotation whose
\* event ranges and frame count are kept in ix, to be compared with samples.
IndexerInputs ==
    [pc : {"in"},
     item : [kind : {"ok"}, roi : RecordRois \cup {NoRoi}, event_frame : EventLists],
     nframes : 0..MaxFrames]

InitIndexer ==
    /\ variant \in {"multi", "single"}
    /\ seq_len \in 1..MaxSeqLen
    /\ default_roi \in Rois
    /\ njson = 1
    /\ files = <<>>
    /\ samples = <<>>
    /\ status = "init"
    /\ openCaps = 0
    /\ result = NoResult
    /\ ix \in IndexerInputs

IndexMulti ==
    /\ variant = "multi"
    /\ ix.pc = "in"
    /\ samples' = Extend(samples, MultiSamplesOf(1, ix.item, ix.nframes, seq_len, default_roi))
    /\ files' = <<FileSeen(ix.item, ix.nframes)>>
    /\ status' = "ready"
    /\ ix' = [ix EXCEPT !.pc = "out"]
    /\ UNCHANGED <<variant, seq_len, default_roi, njson, openCaps, result>>

IndexSingle ==
    /\ variant = "single"
    /\ ix.pc = "in"
    /\ samples' = Extend(samples, SingleSamplesOf(1, ix.item, ix.nframes, seq_len))
    /\ files' = <<FileSeen(ix.item, ix.nframes)>>
    /\ status' = "ready"
    /\ ix' = [ix EXCEPT !.pc = "out"]
    /\ UNCHANGED <<variant, seq_len, default_roi, njson, openCaps, result>>

NextIndexer ==
    \/ IndexMulti
    \/ IndexSingle

SpecIndexer == InitIndexer /\ [][NextIndexer]_vars

\* __len__
Size == Len(samples)

\* ----------------------------------------------------------------- claims
\* frames of the closed window that starts at start
Window(start) == start..(start + seq_len - 1)

\* valid window positions of a video of n frames
Windows(n) == IF n >= seq_len THEN n - seq_len + 1 ELSE 0

RECURSIVE WindowsUpTo(_)
WindowsUpTo(f) == IF f = 0 THEN 0 ELSE WindowsUpTo(f - 1) + Windows(files[f].nframes)

SamplesOfFile(f) == {i \in 1..Len(samples) : samples[i].vpath = f}

Called == result.outcome # "none"

\* frames the decoder could supply from the start of the sample last accessed
Supply == result.supply

\* C1: every sample built from a video has label 1.0 exactly when some frame of
\* its closed window [start, start+seq_len-1] lies in one of the video's closed
\* event ranges (touching at one frame counts), and label 0.0 otherwise,
\* whatever the order of the ranges in the list.
C1_LabelIffWindowMeetsEvent ==
    ix.pc = "out" =>
        \A i \in 1..Len(samples) :
            /\ samples[i].label \in {0, 1}
            /\ samples[i].label = 1 <=>
                   \E r \in {ix.item.event_frame[j] : j \in 1..Len(ix.item.event_frame)} :
                       \E f \in Window(samples[i].start) : r[1] <= f /\ f <= r[2]

C1_Witness ==
    /\ ix.pc = "out"
    /\ Len(ix.item.event_frame) = 2
    /\ \E i \in 1..Len(samples) :
          /\ samples[i].label = 1
          /\ samples[i].start + seq_len - 1 = ix.item.event_frame[2][1]
          /\ ix.item.event_frame[1][2] < samples[i].start
    /\ \E i \in 1..Len(samples) : samples[i].label = 0

\* C2: a video with frame_count >= seq_len yields exactly
\* frame_count - seq_len + 1 samples, the one at position i (from 0) starting
\* at frame i.
C2_StartsEnumerated ==
    (ix.pc = "out" /\ ix.nframes >= seq_len) =>
        /\ Len(samples) = ix.nframes - seq_len + 1
        /\ \A i \in 1..Len(samples) : samples[i].start = i - 1

C2_Witness ==
    /\ ix.pc = "out"
    /\ ix.nframes >= seq_len
    /\ Len(samples) >= 2

\* C3: the multi-video dataset's length is the sum of the files' window counts
\* and file f's samples are the block of positions right after the blocks of
\* the files discovered before it.
C3_BlocksInDiscoveryOrder ==
    (variant = "multi" /\ status = "ready") =>
        /\ Size = WindowsUpTo(Len(files))
        /\ \A f \in 1..Len(files) :
               SamplesOfFile(f) = (WindowsUpTo(f - 1) + 1)..WindowsUpTo(f)

C3_Witness ==
    /\ variant = "multi"
    /\ status = "ready"
    /\ Len(files) = 2
    /\ Windows(files[1].nframes) >= 1
    /\ Windows(files[2].nframes) >= 1
    /\ Size = 3

\* the rectangle the annotation of the accessed sample's video asks for
RoiOfRecord(i) ==
    LET rec == files[samples[i].vpath]
    IN  IF rec.roi # NoRoi THEN rec.roi ELSE default_roi

C5_ShortReadReturns ==
    (Called /\ Supply < seq_len /\ ~CropEmpty(result.roi)) =>
        /\ result.outcome = "ok"
        /\ Len(result.seq) = Supply
        /\ result.label = samples[result.idx].label

\* C6: a well-formed record whose video has frame_count < seq_len contributes
\* no sample and is never what makes construction fail, and every other
\* well-formed record's video still has all its windows indexed.
C6_ShortVideoSkipped ==
    \A f \in 1..Len(files) :
        files[f].kind = "ok" =>
            /\ Cardinality(SamplesOfFile(f)) = Windows(files[f].nframes)
            /\ files[f].nframes < seq_len => SamplesOfFile(f) = {}
            /\ status = "raised" => f # Len(files)

C6_Witness ==
    /\ variant = "multi"
    /\ status = "ready"
    /\ Len(files) = 2
    /\ files[1].kind = "ok"
    /\ files[1].nframes < seq_len
    /\ SamplesOfFile(2) # {}

\* C7: once a record that is malformed or lacks annotations / event_frame has
\* been met, construction has raised and no access is ever served; the
\* single-video dataset has then indexed nothing.
C7_BadRecordAborts ==
    (\E f \in 1..Len(files) : files[f].kind \in BadKinds) =>
        /\ status = "raised"
        /\ ~Called
        /\ variant = "single" => samples = <<>>

C7_Witness ==
    /\ variant = "multi"
    /\ status = "raised"
    /\ Len(files) = 2
    /\ files[2].kind = "no_event_frame"
    /\ samples # <<>>

C9_NoHandleLeftOpen == openCaps = 0

\* every indexed window lies inside its video
SamplesInside ==
    \A i \in 1..Len(samples) :
        /\ samples[i].start >= 0
        /\ samples[i].start + seq_len - 1 < files[samples[i].vpath].nframes

\* C10: every indexed window lies inside its video in every state, and once
\* the dataset is constructed no step changes the index.
C10_WindowsInsideAndIndexFixed ==
    /\ []SamplesInside
    /\ [][status = "ready" => samples' = samples]_vars

C10_Witness ==
    /\ Called
    /\ Len(samples) >= 2
    /\ samples[result.idx].start + seq_len = files[samples[result.idx].vpath].nframes

====
